---- MODULE Spec2Model ----
(***************************************************************************)
(* Model of UniversalSDK (src/src/lib/sdk.ts): the collection store        *)
(* (get / insert / bulkInsert / update / delete over one JSON blob per     *)
(* collection), schema validation, id/uid assignment, the audit log and    *)
(* the query builder.                                                      *)
(*                                                                         *)
(* A thread is one in-flight call of a public method.  JavaScript runs the *)
(* code between two awaits atomically, so a thread has one step per HTTP   *)
(* request it issues (this.request); everything the method computes        *)
(* between two requests is part of the step of the request before it.      *)
(***************************************************************************)
EXTENDS Integers, Sequences, FiniteSets, TLC

VARIABLES blob, schemas, auditLog, uidCtr, calls,
          pc, op, arr, sha, ret, gh, qb, lastExec

vars == <<blob, schemas, auditLog, uidCtr, calls, pc, op, arr, sha, ret, gh, qb, lastExec>>

-----------------------------------------------------------------------------
(* Bounds of the model *)

\* calls of public methods started in one behaviour
MaxCalls == 2
\* largest number an id string is parsed to
MaxNum == 12
\* query builders created in one behaviour
MaxBuilders == 3
\* calls of mutating methods started beside the queries
MaxQCalls == 1

Collections == {"users"}
Callers == {1, 2}
\* the get a query builder starts when it is created runs as a thread of its own
BuilderThread(k) == 2 + k
Threads == Callers \cup {BuilderThread(k) : k \in 1..MaxBuilders}

-----------------------------------------------------------------------------
(* Values: a record is a function from field names to values *)

Null == "<null>"
EmptyRec == <<>>

\* object spread { ...base, ...over }
Spread(base, over) ==
  [f \in (DOMAIN base) \cup (DOMAIN over) |->
     IF f \in DOMAIN over THEN over[f] ELSE base[f]]

Has(r, f) == f \in DOMAIN r

DigitChr == <<"0", "1", "2", "3", "4", "5", "6", "7", "8", "9">>

\* Number.prototype.toString() of a non-negative integer
RECURSIVE toString(_)
toString(n) ==
  IF n < 10 THEN DigitChr[n + 1]
  ELSE toString(n \div 10) \o DigitChr[(n % 10) + 1]

\* +x.id || 0 : the number a decimal id string denotes; an absent or
\* non-numeric id gives NaN, which || turns into 0
ToNum(r) ==
  IF Has(r, "id") /\ \E n \in 0..MaxNum : toString(n) = r["id"]
  THEN CHOOSE n \in 0..MaxNum : toString(n) = r["id"]
  ELSE 0

MaxOf(S) ==
  IF S = {} THEN 0
  ELSE LET x == CHOOSE y \in S : \A z \in S : z <= y IN x

\* Math.max(0, ...arr.map(x => +x.id || 0)) + 1
nextId(a) == MaxOf({0} \cup {ToNum(a[i]) : i \in 1..Len(a)}) + 1

\* crypto.randomUUID(): the n-th token the generator returns
randomUUID(n) == "u" \o toString(n)

\* arr.findIndex(x => x.id === key || x.uid === key), 0 when there is none
RECURSIVE findFrom(_, _, _)
findFrom(a, key, i) ==
  IF i > Len(a) THEN 0
  ELSE IF (Has(a[i], "id") /\ a[i]["id"] = key) \/ (Has(a[i], "uid") /\ a[i]["uid"] = key)
       THEN i
       ELSE findFrom(a, key, i + 1)

findIndex(a, key) == findFrom(a, key, 1)

\* arr.splice(index, 1)
RemoveAt(a, i) == SubSeq(a, 1, i - 1) \o SubSeq(a, i + 1, Len(a))

-----------------------------------------------------------------------------
(* Schemas: this.schemas[collection] *)

NoSchema == [has |-> FALSE, required |-> {}, defaults |-> EmptyRec]
UserSchema == [has |-> TRUE, required |-> {"email"}, defaults |-> [a |-> 0]]
Schemas == {NoSchema, UserSchema}

\* if (schema?.defaults) item = { ...schema.defaults, ...item }
withDefaults(schema, item) ==
  IF schema.has THEN Spread(schema.defaults, item) ELSE item

\* validateSchema without the checks for undefined and null
validateSchemaPresenceOnly(schema, item) ==
  IF ~schema.has THEN TRUE
  ELSE \A field \in schema.required : Has(item, field)

\* TRUE when validateSchema returns, FALSE when it throws
validateSchema(schema, item) ==
  IF ~schema.has THEN TRUE
  ELSE \A field \in schema.required : Has(item, field) /\ item[field] # Null

-----------------------------------------------------------------------------
(* What each method computes between its get and its save *)

\* insert: defaults, validation, id, uid, push
insertLocal(schema, a, item, n) ==
  LET it == withDefaults(schema, item)
      id == toString(nextId(a))
      newItem == Spread([uid |-> randomUUID(n + 1), id |-> id], it)
  IN IF ~validateSchema(schema, it)
     THEN [ok |-> FALSE, arr |-> a, val |-> <<>>, minted |-> 0]
     ELSE [ok |-> TRUE, arr |-> Append(a, newItem), val |-> <<newItem>>, minted |-> 1]

\* bulkInsert: the loop over items, from item k on, with nextId carried along
RECURSIVE bulkLoop(_, _, _, _, _, _, _)
bulkLoop(schema, a, items, k, nxt, results, n) ==
  IF k > Len(items)
  THEN [ok |-> TRUE, arr |-> a, val |-> results, minted |-> n]
  ELSE LET processedItem == withDefaults(schema, items[k])
           newItem == Spread([uid |-> randomUUID(n + 1), id |-> toString(nxt)], processedItem)
       IN IF ~validateSchema(schema, processedItem)
          THEN [ok |-> FALSE, arr |-> a, val |-> <<>>, minted |-> n]
          ELSE bulkLoop(schema, Append(a, newItem), items, k + 1, nxt + 1,
                        Append(results, newItem), n + 1)

\* n0 is the number of uids generated before the call; minted counts this call's
bulkLocal(schema, a, items, n0) ==
  LET r == bulkLoop(schema, a, items, 1, nextId(a), <<>>, n0)
  IN [r EXCEPT !.minted = r.minted - n0]

\* update with the patch replacing the record instead of merging into it
updateLocalReplace(a, key, updates) ==
  LET index == findIndex(a, key)
  IN IF index = 0
     THEN [found |-> FALSE, arr |-> a, val |-> <<>>]
     ELSE [found |-> TRUE, arr |-> [a EXCEPT ![index] = updates], val |-> <<updates>>]

\* update without the early return for index === -1
updateLocalNoReturn(a, key, updates) ==
  LET index == findIndex(a, key)
  IN IF index = 0
     THEN [found |-> TRUE, arr |-> a, val |-> <<updates>>]
     ELSE LET merged == Spread(a[index], updates)
          IN [found |-> TRUE, arr |-> [a EXCEPT ![index] = merged], val |-> <<merged>>]

\* update: findIndex, early return, shallow merge
updateLocal(a, key, updates) ==
  LET index == findIndex(a, key)
  IN IF index = 0
     THEN [found |-> FALSE, arr |-> a, val |-> <<>>]
     ELSE LET merged == Spread(a[index], updates)
          IN [found |-> TRUE, arr |-> [a EXCEPT ![index] = merged], val |-> <<merged>>]

\* delete: findIndex, early return, splice
deleteLocal(a, key) ==
  LET index == findIndex(a, key)
  IN IF index = 0
     THEN [found |-> FALSE, arr |-> a, val |-> <<>>]
     ELSE [found |-> TRUE, arr |-> RemoveAt(a, index), val |-> <<a[index]>>]

\* getItem: arr.find(x => x.id === key || x.uid === key) || null
getItemLocal(a, key) ==
  LET index == findIndex(a, key)
  IN IF index = 0 THEN <<>> ELSE <<a[index]>>

\* The rest of a method once `await this.get(collection)` has returned data:
\* either the method ends (pc "done") or it goes on to save(collection, arr).
afterGet(o, schema, data, n) ==
  CASE o.kind \in {"get", "query"} ->
         [pc |-> "done", status |-> "ok", arr |-> data, val |-> data, minted |-> 0]
    [] o.kind = "getItem" ->
         [pc |-> "done", status |-> "ok", arr |-> data,
          val |-> getItemLocal(data, o.key), minted |-> 0]
    [] o.kind = "insert" ->
         LET r == insertLocal(schema, data, o.items[1], n)
         IN IF r.ok
            THEN [pc |-> "head", status |-> "none", arr |-> r.arr, val |-> r.val, minted |-> r.minted]
            ELSE [pc |-> "done", status |-> "validation", arr |-> data, val |-> <<>>, minted |-> 0]
    [] o.kind = "bulkInsert" ->
         LET r == bulkLocal(schema, data, o.items, n)
         IN IF r.ok
            THEN [pc |-> "head", status |-> "none", arr |-> r.arr, val |-> r.val, minted |-> r.minted]
            ELSE [pc |-> "done", status |-> "validation", arr |-> data, val |-> <<>>, minted |-> r.minted]
    [] o.kind = "update" ->
         LET r == updateLocal(data, o.key, o.patch)
         IN IF r.found
            THEN [pc |-> "head", status |-> "none", arr |-> r.arr, val |-> r.val, minted |-> 0]
            ELSE [pc |-> "done", status |-> "notfound", arr |-> data, val |-> <<>>, minted |-> 0]
    [] o.kind = "delete" ->
         LET r == deleteLocal(data, o.key)
         IN IF r.found
            THEN [pc |-> "head", status |-> "none", arr |-> r.arr, val |-> r.val, minted |-> 0]
            ELSE [pc |-> "done", status |-> "notfound", arr |-> data, val |-> <<>>, minted |-> 0]

-----------------------------------------------------------------------------
(* The blob store (GitHub contents API behind this.request) *)

NoBlob == [exists |-> FALSE, data |-> <<>>]
NoSha == [has |-> FALSE, val |-> <<>>]

\* The version token of a blob is a hash of its bytes: two blobs have the same
\* token exactly when they hold the same content.
Version(b) == b.data

\* GET: head.sha when the blob exists; the request throws otherwise (caught)
readSha(b) == IF b.exists THEN [has |-> TRUE, val |-> Version(b)] ELSE NoSha

\* PUT with the optional expected version s: the outcomes the store can give.
\* A write without a version to a path that exists is left open by the
\* interface: the store may take it as unconditional or reject it.
WriteOutcomes(b, s) ==
  IF s.has
  THEN IF b.exists /\ s.val = Version(b) THEN {"ok"} ELSE {"conflict"}
  ELSE IF b.exists THEN {"ok", "transport"} ELSE {"ok"}

-----------------------------------------------------------------------------
(* Inputs of the calls *)

ItemOk == [email |-> "e"]
ItemNoEmail == [a |-> 1]
ItemNull == [email |-> Null]
ItemWithId == [email |-> "e", id |-> "1"]
ItemWithUid == [email |-> "e", uid |-> "u1"]
Items == {ItemOk, ItemNull, ItemWithId, ItemWithUid}
Batches == {<<ItemOk, ItemOk>>, <<ItemOk, ItemNoEmail>>, <<ItemWithId, ItemOk>>}
\* update(collection, key, patch): "1" is an id, "u2" a uid, "7" neither
Updates == {<<"1", [a |-> 2]>>, <<"1", [email |-> "x"]>>, <<"u2", [id |-> "1"]>>, <<"7", [a |-> 2]>>,
            <<"1", [uid |-> "3"]>>}
\* delete(collection, key) and getItem(collection, key)
Keys == {"3", "7"}
ItemKeys == {"3"}

NoOp == [kind |-> "none", coll |-> "users", items |-> <<>>, key |-> "", patch |-> EmptyRec]

Ops ==
  {[NoOp EXCEPT !.kind = "get", !.coll = c] : c \in Collections}
  \cup {[NoOp EXCEPT !.kind = "getItem", !.coll = c, !.key = k] : c \in Collections, k \in ItemKeys}
  \cup {[NoOp EXCEPT !.kind = "insert", !.coll = c, !.items = <<i>>] : c \in Collections, i \in Items}
  \cup {[NoOp EXCEPT !.kind = "bulkInsert", !.coll = c, !.items = b] : c \in Collections, b \in Batches}
  \cup {[NoOp EXCEPT !.kind = "update", !.coll = c, !.key = u[1], !.patch = u[2]] :
          c \in Collections, u \in Updates}
  \cup {[NoOp EXCEPT !.kind = "delete", !.coll = c, !.key = k] : c \in Collections, k \in Keys}

Mutating == {"insert", "bulkInsert", "update", "delete"}
Audited == {"insert", "update", "delete"}

\* Collections as earlier runs of the program may have left them in the store
R1 == [uid |-> "u1", id |-> "1", email |-> "e", a |-> 3]
R2 == [uid |-> "u2", id |-> "2", email |-> "f", a |-> 1]
R3 == [uid |-> "u3", id |-> "3", email |-> "g", a |-> 2]
Stored == {<<R1, R2, R3>>}

-----------------------------------------------------------------------------
(* State *)

NoRet == [status |-> "none", val |-> <<>>]

\* the last exec: the builder k, its closure state b, the value returned and,
\* for the properties, the collection stored when exec ran
NoExec == [k |-> 0, val |-> <<>>, b |-> <<>>, stored |-> <<>>]

\* bookkeeping of one call, read by the properties only
NoGh == [missing |-> FALSE, fetched |-> <<>>, puts |-> <<>>, naud |-> 0,
         clobber |-> FALSE, overlap |-> {},
         atRet |-> NoBlob, uid0 |-> 0, minted |-> 0]

InFlight(t) == pc[t] \in {"initHead", "initPut", "head", "put"}

Init ==
  /\ blob \in [Collections -> {NoBlob} \cup {[exists |-> TRUE, data |-> d] : d \in Stored}]
  /\ schemas \in [Collections -> Schemas]
  /\ auditLog = [c \in Collections |-> <<>>]
  /\ uidCtr = Len(<<R1, R2, R3>>)
  /\ calls = 0
  /\ pc = [t \in Threads |-> "idle"]
  /\ op = [t \in Threads |-> NoOp]
  /\ arr = [t \in Threads |-> <<>>]
  /\ sha = [t \in Threads |-> NoSha]
  /\ ret = [t \in Threads |-> NoRet]
  /\ gh = [t \in Threads |-> NoGh]
  /\ qb = <<>>
  /\ lastExec = NoExec

\* thread t starts the call o: every method begins with this.get(collection)
Start(t, o) ==
  /\ op' = [op EXCEPT ![t] = o]
  /\ pc' = [pc EXCEPT ![t] = "fetch"]
  /\ arr' = [arr EXCEPT ![t] = <<>>]
  /\ sha' = [sha EXCEPT ![t] = NoSha]
  /\ ret' = [ret EXCEPT ![t] = NoRet]
  /\ gh' = [u \in Threads |-> IF u = t THEN NoGh ELSE [gh[u] EXCEPT !.overlap = @ \ {t}]]

\* a caller invokes a public method
Call(t) ==
  /\ pc[t] \in {"idle", "done"}
  /\ calls < MaxCalls
  /\ \E o \in Ops : Start(t, o)
  /\ calls' = calls + 1
  /\ UNCHANGED <<blob, schemas, auditLog, uidCtr, qb, lastExec>>

\* The method goes on after get returned data; g is the call's bookkeeping
Resume(t, data, g, b) ==
  LET r == afterGet(op[t], schemas[op[t].coll], data, uidCtr)
  IN /\ pc' = [pc EXCEPT ![t] = r.pc]
     /\ arr' = [arr EXCEPT ![t] = r.arr]
     /\ ret' = [ret EXCEPT ![t] = [status |-> r.status, val |-> r.val]]
     /\ uidCtr' = uidCtr + r.minted
     /\ gh' = [gh EXCEPT ![t] = [g EXCEPT !.fetched = data, !.uid0 = uidCtr,
                                          !.minted = r.minted, !.atRet = b]]

\* get: the request finds the blob
get(t) ==
  LET c == op[t].coll IN
  /\ pc[t] = "fetch"
  /\ blob[c].exists
  /\ Resume(t, blob[c].data,
            [gh[t] EXCEPT !.overlap = {u \in Threads \ {t} : InFlight(u)}],
            blob[c])
  /\ UNCHANGED <<blob, schemas, auditLog, calls, op, sha, qb, lastExec>>

\* get: the request fails with 404 and get turns to initializeCollection
get404(t) ==
  LET c == op[t].coll IN
  /\ pc[t] = "fetch"
  /\ ~blob[c].exists
  /\ pc' = [pc EXCEPT ![t] = "initHead"]
  /\ gh' = [gh EXCEPT ![t].missing = TRUE,
                      ![t].overlap = {u \in Threads \ {t} : InFlight(u)}]
  /\ UNCHANGED <<blob, schemas, auditLog, uidCtr, calls, op, arr, sha, ret, qb, lastExec>>

\* save: the request for head.sha (errors caught, sha left undefined)
saveHead(t) ==
  LET c == op[t].coll IN
  /\ pc[t] \in {"initHead", "head"}
  /\ sha' = [sha EXCEPT ![t] = readSha(blob[c])]
  /\ pc' = [pc EXCEPT ![t] = IF pc[t] = "initHead" THEN "initPut" ELSE "put"]
  /\ UNCHANGED <<blob, schemas, auditLog, uidCtr, calls, op, arr, ret, gh, qb, lastExec>>

\* the store after a PUT of data with outcome o
Written(c, data, o) ==
  IF o = "ok" THEN [blob EXCEPT ![c] = [exists |-> TRUE, data |-> data]] ELSE blob

\* initializeCollection: save(collection, [])'s PUT; whatever its outcome
\* (errors are caught and logged), get returns [] and the method goes on
initializeCollection(t) ==
  LET c == op[t].coll IN
  /\ pc[t] = "initPut"
  /\ \E o \in WriteOutcomes(blob[c], sha[t]) :
       /\ blob' = Written(c, <<>>, o)
       /\ Resume(t, <<>>,
                 [gh[t] EXCEPT !.puts = Append(@, [data |-> <<>>, outcome |-> o]),
                               !.clobber = (o = "ok" /\ blob[c].exists
                                            /\ blob[c].data # <<>>)],
                 blob'[c])
  /\ UNCHANGED <<schemas, auditLog, calls, op, sha, qb, lastExec>>

\* _audit keeping only the new entry
auditReplace(log, c, data, action) ==
  [log EXCEPT ![c] = <<[action |-> action, data |-> data]>>]

\* _audit(collection, data, action)
audit(log, c, data, action) ==
  [log EXCEPT ![c] = Append(@, [action |-> action, data |-> data])]

\* save's PUT of the method's arr, then the method's audit entry and return;
\* a rejected PUT throws out of save and out of the method
save(t) ==
  LET c == op[t].coll IN
  /\ pc[t] = "put"
  /\ \E o \in WriteOutcomes(blob[c], sha[t]) :
       /\ blob' = Written(c, arr[t], o)
       /\ ret' = [ret EXCEPT ![t].status = o]
       /\ auditLog' = IF o = "ok" /\ op[t].kind \in Audited
                      THEN audit(auditLog, c, ret[t].val[1], op[t].kind)
                      ELSE auditLog
       /\ gh' = [gh EXCEPT ![t].puts = Append(@, [data |-> arr[t], outcome |-> o]),
                           ![t].naud = IF o = "ok" /\ op[t].kind \in Audited THEN @ + 1 ELSE @,
                           ![t].clobber = (o = "ok" /\ blob[c].exists
                                           /\ blob[c].data # gh[t].fetched),
                           ![t].atRet = blob'[c]]
  /\ pc' = [pc EXCEPT ![t] = "done"]
  /\ UNCHANGED <<schemas, uidCtr, calls, op, arr, sha, qb, lastExec>>

-----------------------------------------------------------------------------
(* The query builder: queryBuilder(collection) and the object it returns *)

\* the predicates passed to where: r => r.a > 1 and r => r.email != null
Preds == {"aGt1", "hasEmail"}
Holds(p, r) ==
  CASE p = "aGt1" -> Has(r, "a") /\ r["a"] > 1
    [] p = "hasEmail" -> Has(r, "email") /\ r["email"] # Null
SortFields == {"a"}
Dirs == {"asc", "desc"}
Projections == {<<"a">>}

\* how a builder came to be: by queryBuilder(collection) called by the user
\* (from 0), or as the value a where, sort or project call on builder `from`
\* returned
Made(by, from, pred, field, dir, fields) ==
  [by |-> by, from |-> from, pred |-> pred, field |-> field, dir |-> dir, fields |-> fields]
MadeNew == Made("queryBuilder", 0, "", "", "asc", <<>>)

\* the closure state of queryBuilder: filters = [], sortField = null (""),
\* sortDir = 'asc', projectionFields = null
NewBuilder(c, made) ==
  [coll |-> c, filters |-> <<>>, sortField |-> "", sortDir |-> "asc",
   proj |-> [has |-> FALSE, fields |-> <<>>], made |-> made]

\* the sort comparator
compare(x, y, field, dir) ==
  IF ~(Has(x, field) /\ Has(y, field)) THEN 0
  ELSE IF dir = "asc"
       THEN (IF x[field] > y[field] THEN 1 ELSE IF x[field] < y[field] THEN -1 ELSE 0)
       ELSE (IF x[field] < y[field] THEN 1 ELSE IF x[field] > y[field] THEN -1 ELSE 0)

\* x put into the sorted s behind every element that does not compare greater
RECURSIVE insertSorted(_, _, _, _)
insertSorted(s, x, field, dir) ==
  IF s = <<>> THEN <<x>>
  ELSE IF compare(s[Len(s)], x, field, dir) > 0
       THEN Append(insertSorted(SubSeq(s, 1, Len(s) - 1), x, field, dir), s[Len(s)])
       ELSE Append(s, x)

\* Array.prototype.sort with the comparator (a stable sort)
RECURSIVE sorted(_, _, _)
sorted(s, field, dir) ==
  IF s = <<>> THEN <<>>
  ELSE insertSorted(sorted(SubSeq(s, 1, Len(s) - 1), field, dir), s[Len(s)], field, dir)

\* for (const filter of filters) results = results.filter(filter)
RECURSIVE filtered(_, _)
filtered(s, filters) ==
  IF filters = <<>> THEN s
  ELSE filtered(SelectSeq(s, LAMBDA r : Holds(Head(filters), r)), Tail(filters))

\* projected[field] = item[field]; a field the item lacks is projected to
\* undefined, modelled as the key being absent (as it is once serialised)
projected(r, fields) ==
  [f \in {fields[i] : i \in 1..Len(fields)} \cap DOMAIN r |-> r[f]]

\* exec, from the value of `query` on: filters, then sort, then projection
execLocal(b, data) ==
  LET f == filtered(data, b.filters)
      s == IF b.sortField # "" THEN sorted(f, b.sortField, b.sortDir) ELSE f
  IN IF b.proj.has THEN [i \in 1..Len(s) |-> projected(s[i], b.proj.fields)] ELSE s

\* queryBuilder(collection): `let query = this.get(collection)` starts the
\* get at once; made tells the call that created the builder
create(builders, c, made) ==
  /\ Len(builders) < MaxBuilders
  /\ qb' = Append(builders, NewBuilder(c, made))
  /\ Start(BuilderThread(Len(builders) + 1), [NoOp EXCEPT !.kind = "query", !.coll = c])
  /\ UNCHANGED <<blob, schemas, auditLog, uidCtr, calls, lastExec>>

\* the user calls queryBuilder(collection)
queryBuilder(c) == create(qb, c, MadeNew)

\* builder k's where(fn): filters.push(fn); return this.queryBuilder(collection)
where(k, p) ==
  create([qb EXCEPT ![k].filters = Append(@, p)], qb[k].coll,
         Made("where", k, p, "", "asc", <<>>))

\* builder k's sort(field, dir)
sort(k, field, dir) ==
  create([qb EXCEPT ![k].sortField = field, ![k].sortDir = dir], qb[k].coll,
         Made("sort", k, "", field, dir, <<>>))

\* builder k's project(fields)
project(k, fields) ==
  create([qb EXCEPT ![k].proj = [has |-> TRUE, fields |-> fields]], qb[k].coll,
         Made("project", k, "", "", "asc", fields))

\* builder k's exec(), once `await query` has the value get returned; without
\* filters results.sort sorts the very array `query` resolved to
exec(k) ==
  LET t == BuilderThread(k) IN
  /\ pc[t] = "done"
  /\ lastExec' = [k |-> k, val |-> execLocal(qb[k], ret[t].val), b |-> qb[k],
                   stored |-> blob[qb[k].coll].data]
  /\ ret' = [ret EXCEPT ![t].val =
               IF qb[k].filters = <<>> /\ qb[k].sortField # ""
               THEN sorted(@, qb[k].sortField, qb[k].sortDir) ELSE @]
  /\ UNCHANGED <<blob, schemas, auditLog, uidCtr, calls, pc, op, arr, sha, gh, qb>>

\* the mutations that run beside the queries
QOps == {o \in Ops : \/ o.kind = "insert" /\ o.items = <<ItemOk>>
                     \/ o.kind = "delete" /\ o.key = "3"}

QCall(t) ==
  /\ pc[t] \in {"idle", "done"}
  /\ calls < MaxQCalls
  /\ \E o \in QOps : Start(t, o)
  /\ calls' = calls + 1
  /\ UNCHANGED <<blob, schemas, auditLog, uidCtr, qb, lastExec>>

Next ==
  \E t \in Callers :
    \/ Call(t)
    \/ get(t)
    \/ get404(t)
    \/ saveHead(t)
    \/ initializeCollection(t)
    \/ save(t)

Spec == Init /\ [][Next]_vars

\* queries, their gets, and one caller's mutations beside them
QNext ==
  \/ \E c \in Collections : queryBuilder(c)
  \/ \E k \in 1..Len(qb) :
       \/ \E p \in Preds : where(k, p)
       \/ \E f \in SortFields : \E d \in Dirs : sort(k, f, d)
       \/ \E fs \in Projections : project(k, fs)
       \/ exec(k)
  \/ QCall(1)
  \/ \E t \in Threads :
       \/ get(t)
       \/ saveHead(t)
       \/ save(t)

\* The queries are checked over collections that exist: no step removes a
\* blob, so get's 404 branch (get404, initializeCollection) cannot be taken.
QInit == Init /\ \A c \in Collections : blob[c].exists

QSpec == QInit /\ [][QNext]_vars

TypeOK ==
  /\ \A t \in Threads : pc[t] \in {"idle", "fetch", "initHead", "initPut", "head", "put", "done"}
  /\ \A c \in Collections : \A i \in 1..Len(blob[c].data) : ToNum(blob[c].data[i]) <= MaxNum

-----------------------------------------------------------------------------
(* Vocabulary of the properties *)

Done(t, kinds) == pc[t] = "done" /\ op[t].kind \in kinds

Matches(r, key) == (Has(r, "id") /\ r["id"] = key) \/ (Has(r, "uid") /\ r["uid"] = key)

\* the first record, in sequence order, whose id or uid is key; 0 if none
FirstMatch(a, key) ==
  IF \E i \in 1..Len(a) : Matches(a[i], key)
  THEN CHOOSE i \in 1..Len(a) : Matches(a[i], key) /\ \A j \in 1..(i - 1) : ~Matches(a[j], key)
  ELSE 0

\* p's fields and values are all in r
Carries(r, p) == \A f \in DOMAIN p : Has(r, f) /\ r[f] = p[f]

\* the number an id denotes, 0 when absent or not a number
IdNum(r) ==
  IF Has(r, "id") /\ \E n \in 0..MaxNum : toString(n) = r["id"]
  THEN CHOOSE n \in 0..MaxNum : toString(n) = r["id"] ELSE 0

MaxId(a) == IF a = <<>> THEN 0
            ELSE CHOOSE m \in 0..MaxNum :
                   /\ \E i \in 1..Len(a) : IdNum(a[i]) = m
                   /\ \A i \in 1..Len(a) : IdNum(a[i]) <= m

-----------------------------------------------------------------------------
\* C1: two concurrent updates of the same record (here with different
\* patches) that fetched the same blob version end with exactly one success
\* and one Conflict, and the stored collection is the successful one's: it
\* holds that patch and not the other, and no successful update is lost.
C1_OneUpdateWins ==
  \A t \in Threads : \A u \in Threads \ {t} :
    ( /\ Done(t, {"update"}) /\ Done(u, {"update"})
      /\ op[t].coll = op[u].coll /\ op[t].patch # op[u].patch
      /\ u \in gh[t].overlap \/ t \in gh[u].overlap
      /\ ~gh[t].missing /\ ~gh[u].missing
      /\ gh[t].fetched = gh[u].fetched
      /\ FirstMatch(gh[t].fetched, op[t].key) # 0
      /\ FirstMatch(gh[t].fetched, op[t].key) = FirstMatch(gh[u].fetched, op[u].key) )
    => /\ {ret[t].status, ret[u].status} = {"ok", "conflict"}
       /\ ret[t].status = "ok" => blob[op[t].coll].data = arr[t]

\* C2: a mutating operation whose write succeeds wrote over the blob version
\* it read its records from: no other write changed the blob in between.
C2_StaleWriteRejected ==
  \A t \in Threads : (Done(t, Mutating) /\ ret[t].status = "ok") => ~gh[t].clobber

\* C3: no two records stored in one collection have the same id.
C3_UniqueIds ==
  \A c \in Collections :
    \A i \in 1..Len(blob[c].data) : \A j \in 1..Len(blob[c].data) :
      (i # j /\ Has(blob[c].data[i], "id") /\ Has(blob[c].data[j], "id"))
      => blob[c].data[i]["id"] # blob[c].data[j]["id"]

\* C4: the record a successful insert returns and stores has the id
\* 1 + max of the ids of the collection the insert read.
C4_InsertIdIsNext ==
  \A t \in Threads :
    (Done(t, {"insert"}) /\ ret[t].status = "ok")
    => /\ ret[t].val[1]["id"] = toString(1 + MaxId(gh[t].fetched))
       /\ gh[t].atRet.data[Len(gh[t].atRet.data)] = ret[t].val[1]

\* a required field the item lacks or has null for, and no default supplies
Unsupplied(schema, item) ==
  schema.has /\ \E f \in schema.required :
                  /\ ~(Has(item, f) /\ item[f] # Null)
                  /\ ~Has(schema.defaults, f)

InvalidCall(t) ==
  \E k \in 1..Len(op[t].items) : Unsupplied(schemas[op[t].coll], op[t].items[k])

\* the writes a call issued, as the contents it sent
Sent(t) == [i \in 1..Len(gh[t].puts) |-> gh[t].puts[i].data]

\* the only write the call issued, if any, is get's creation of a blob its
\* fetch found missing, as an empty sequence
OnlyLazyCreation(t) == Sent(t) = IF gh[t].missing THEN <<(<<>>)>> ELSE <<>>

\* C5 (as claimed): an insert or bulkInsert with an item that lacks a required
\* field fails with a validation error, issues no write at all, in any prior
\* state of the collection, and appends no audit entry.
C5_InvalidInsertNoWrite ==
  \A t \in Threads :
    (Done(t, {"insert", "bulkInsert"}) /\ InvalidCall(t))
    => ret[t].status = "validation" /\ Sent(t) = <<>> /\ gh[t].naud = 0

\* C5 (amended): such a call fails with a validation error, sends none of its
\* items to the store and appends no audit entry; it issues no write when its
\* fetch found the blob, and exactly one, the creation of the blob as an
\* empty sequence, when its fetch found the blob missing.
C5_InvalidInsertStoresNothing ==
  \A t \in Threads :
    (Done(t, {"insert", "bulkInsert"}) /\ InvalidCall(t))
    => ret[t].status = "validation" /\ ret[t].val = <<>>
       /\ OnlyLazyCreation(t) /\ gh[t].naud = 0

\* a bulkInsert failed on its second item, in a collection that exists, and
\* an insert failed on a null field
C5_Witness ==
  \E t \in Threads : \E u \in Threads :
    /\ Done(t, {"bulkInsert"}) /\ InvalidCall(t) /\ ret[t].status = "validation"
    /\ gh[t].minted = 1 /\ ~gh[t].missing
    /\ Done(u, {"insert"}) /\ InvalidCall(u) /\ ret[u].status = "validation"
    /\ gh[u].missing

\* C6: a successful update stores the collection it read with only the first
\* record whose id or uid is the key changed: that record keeps the fields the
\* patch does not name and takes the patch's values; the other records, their
\* number and order are as read; the returned record is the stored one.
C6_UpdateFrame ==
  \A t \in Threads :
    (Done(t, {"update"}) /\ ret[t].status = "ok")
    => LET old == gh[t].fetched
           new == gh[t].atRet.data
           i == FirstMatch(old, op[t].key)
       IN /\ i # 0
          /\ Len(new) = Len(old)
          /\ \A j \in 1..Len(old) : j # i => new[j] = old[j]
          /\ DOMAIN new[i] = (DOMAIN old[i]) \cup (DOMAIN op[t].patch)
          /\ \A f \in DOMAIN op[t].patch : new[i][f] = op[t].patch[f]
          /\ \A f \in (DOMAIN old[i]) \ (DOMAIN op[t].patch) : new[i][f] = old[i][f]
          /\ ret[t].val = <<new[i]>>

\* an update by uid of the second of two records, which adds a field value
C6_Witness ==
  \E t \in Threads :
    /\ Done(t, {"update"}) /\ ret[t].status = "ok"
    /\ FirstMatch(gh[t].fetched, op[t].key) = 2
    /\ gh[t].atRet.data[2] # gh[t].fetched[2]

\* C7 (as claimed): update and delete of a key no record has return the
\* not-found sentinel, issue no write and append no audit entry.
C7_NotFoundNoWrite ==
  \A t \in Threads :
    (Done(t, {"update", "delete"}) /\ FirstMatch(gh[t].fetched, op[t].key) = 0)
    => ret[t].status = "notfound" /\ Sent(t) = <<>> /\ gh[t].naud = 0

\* C7 (amended): they return the not-found sentinel and append no audit
\* entry; they issue no write when their fetch found the blob, and exactly
\* one, the creation of the blob as an empty sequence, when it found none.
C7_NotFoundStoresNothing ==
  \A t \in Threads :
    (Done(t, {"update", "delete"}) /\ FirstMatch(gh[t].fetched, op[t].key) = 0)
    => ret[t].status = "notfound" /\ ret[t].val = <<>>
       /\ OnlyLazyCreation(t) /\ gh[t].naud = 0

\* a delete and an update of an absent key in a collection that holds records
C7_Witness ==
  \E t \in Threads : \E u \in Threads :
    /\ Done(t, {"delete"}) /\ ret[t].status = "notfound" /\ gh[t].fetched # <<>>
    /\ Done(u, {"update"}) /\ ret[u].status = "notfound" /\ gh[u].fetched # <<>>

\* C8: a successful bulkInsert gives its i-th result the id max(ids read) + i,
\* returns one record per item in the items' order, and issues one write.
C8_BulkInsertIds ==
  \A t \in Threads :
    (Done(t, {"bulkInsert"}) /\ ret[t].status = "ok")
    => /\ Len(ret[t].val) = Len(op[t].items)
       /\ \A i \in 1..Len(ret[t].val) :
            /\ ret[t].val[i]["id"] = toString(MaxId(gh[t].fetched) + i)
            /\ Carries(ret[t].val[i], op[t].items[i])
       /\ Len(Sent(t)) = 1

\* C9: a get of a collection whose blob was never written returns an empty
\* sequence, and when it returns the blob exists and holds an empty sequence.
C9_GetCreatesEmpty ==
  \A t \in Threads :
    (Done(t, {"get"}) /\ gh[t].missing)
    => ret[t].val = <<>> /\ gh[t].atRet.exists /\ gh[t].atRet.data = <<>>

\* how often r occurs in s
Count(s, r) == Cardinality({i \in 1..Len(s) : s[i] = r})

SameRecords(s, d) ==
  /\ Len(s) = Len(d)
  /\ \A i \in 1..Len(d) : Count(s, d[i]) = Count(d, d[i])

Ascending(s, field) ==
  \A i \in 1..Len(s) : \A j \in (i + 1)..Len(s) :
    (Has(s[i], field) /\ Has(s[j], field)) => s[i][field] <= s[j][field]

\* C10: exec on the builder that queryBuilder(c).sort(field, "asc") returned
\* yields all records of the collection, ordered ascending by the field;
\* [{a:3},{a:1},{a:2}] gives [{a:1},{a:2},{a:3}].
C10_SortAscOrders ==
  LET k == lastExec.k IN
  (k # 0 /\ qb[k].made.by = "sort" /\ qb[k].made.dir = "asc"
         /\ qb[qb[k].made.from].made.by = "queryBuilder"
         /\ lastExec.b = NewBuilder(qb[k].coll, qb[k].made))
  => /\ SameRecords(lastExec.val, gh[BuilderThread(k)].fetched)
     /\ Ascending(lastExec.val, qb[k].made.field)
     /\ gh[BuilderThread(k)].fetched = <<R1, R2, R3>> => lastExec.val = <<R2, R3, R1>>

\* the predicates of the where calls in the chain of calls that led to
\* builder k, from queryBuilder(c) on
RECURSIVE ChainPreds(_)
ChainPreds(k) ==
  IF qb[k].made.by = "queryBuilder" THEN <<>>
  ELSE IF qb[k].made.by = "where"
       THEN Append(ChainPreds(qb[k].made.from), qb[k].made.pred)
       ELSE ChainPreds(qb[k].made.from)

\* builder k is queryBuilder(c).where(p1)...where(pn), n >= 0
RECURSIVE OnlyWheres(_)
OnlyWheres(k) ==
  \/ qb[k].made.by = "queryBuilder"
  \/ qb[k].made.by = "where" /\ OnlyWheres(qb[k].made.from)

\* r rebuilt to the listed fields
Restricted(r, fields) == [f \in {fields[i] : i \in 1..Len(fields)} \cap DOMAIN r |-> r[f]]

\* C11: exec on the builder that queryBuilder(c).where(p1)...where(pn) or
\* queryBuilder(c).where(p1)...where(pn).project(fields) returned, n >= 1,
\* yields exactly the fetched records that satisfy all of p1..pn, in their
\* order, each rebuilt to the listed fields when there is a projection.
C11_ChainCarriesOperations ==
  LET k == lastExec.k IN
  (k # 0 /\ lastExec.b = NewBuilder(qb[k].coll, qb[k].made)
         /\ ChainPreds(k) # <<>>
         /\ \/ OnlyWheres(k)
            \/ qb[k].made.by = "project" /\ OnlyWheres(qb[k].made.from))
  => LET ps == ChainPreds(k)
         sel == SelectSeq(gh[BuilderThread(k)].fetched,
                          LAMBDA r : \A i \in 1..Len(ps) : Holds(ps[i], r))
     IN lastExec.val = IF qb[k].made.by = "project"
                       THEN [i \in 1..Len(sel) |-> Restricted(sel[i], qb[k].made.fields)]
                       ELSE sel

\* C12: exec computes its result from the collection as stored when exec is
\* called: a mutation that succeeded after the builder was created, or after
\* an earlier exec, shows in the result.
C12_ExecFetchesAfresh ==
  lastExec.k # 0 => lastExec.val = execLocal(lastExec.b, lastExec.stored)

\* C16: where, sort and project leave the builder they are called on as it
\* was: exec on a builder returns what it returns when nothing was called on
\* the builder.
C16_ChainingLeavesReceiver ==
  LET k == lastExec.k IN
  k # 0 => lastExec.val = execLocal(NewBuilder(qb[k].coll, qb[k].made),
                                    gh[BuilderThread(k)].fetched)

\* C17: creating a builder and calling where, sort or project reads nothing
\* from the blob store: while exec has not been called, no builder's get
\* has been performed.
C17_NoFetchBeforeExec ==
  lastExec.k = 0 => \A k \in 1..Len(qb) : pc[BuilderThread(k)] # "done"

\* C13: no two records stored, in one collection or in two, have the same
\* uid, whatever fields the inserted items and the patches carry.
C13_UniqueUids ==
  \A c \in Collections : \A d \in Collections :
    \A i \in 1..Len(blob[c].data) : \A j \in 1..Len(blob[d].data) :
      (<<c, i>> # <<d, j>> /\ Has(blob[c].data[i], "uid") /\ Has(blob[d].data[j], "uid"))
      => blob[c].data[i]["uid"] # blob[d].data[j]["uid"]

\* C14: a read (get, getItem) never replaces the content of a blob that holds
\* records: the write its lazy creation issues succeeds only on a blob that
\* does not exist or holds no record.
C14_ReadsDestroyNothing ==
  \A t \in Threads : Done(t, {"get", "getItem"}) => ~gh[t].clobber

\* C15: an operation one of whose writes the store rejected with Conflict
\* ends by reporting Conflict, and the rejected write is its last.
C15_ConflictReported ==
  \A t \in Threads :
    (pc[t] = "done" /\ \E i \in 1..Len(gh[t].puts) : gh[t].puts[i].outcome = "conflict")
    => /\ ret[t].status = "conflict"
       /\ \A i \in 1..(Len(gh[t].puts) - 1) : gh[t].puts[i].outcome # "conflict"

\* C18: the id given to a record inserted by a call that ran alone (no other
\* call in flight, item without an id of its own) is greater than the id of
\* every record the collection's history shows as inserted or deleted before.
C18_IdsNeverReused ==
  \A t \in Threads :
    LET log == auditLog[op[t].coll] IN
    ( /\ Done(t, {"insert"}) /\ ret[t].status = "ok"
      /\ ~Has(op[t].items[1], "id")
      /\ gh[t].overlap = {} /\ ~gh[t].clobber
      /\ log # <<>>
      /\ log[Len(log)] = [action |-> "insert", data |-> ret[t].val[1]] )
    => \A i \in 1..(Len(log) - 1) :
         log[i].action \in {"insert", "delete"}
         => IdNum(log[i].data) < IdNum(ret[t].val[1])

\* C19: when the key of a getItem, update or delete is the id of one fetched
\* record and the uid of another, the record selected (returned, merged or
\* removed) is the one whose id is the key, wherever the two records stand.
C19_IdMatchWins ==
  \A t \in Threads :
    LET a == gh[t].fetched
        key == op[t].key
    IN ( /\ Done(t, {"getItem", "update", "delete"})
         /\ ~Has(op[t].patch, "id")
         /\ \E i \in 1..Len(a) : \E j \in 1..Len(a) :
              /\ i # j
              /\ Has(a[i], "id") /\ a[i]["id"] = key
              /\ Has(a[j], "uid") /\ a[j]["uid"] = key
              /\ ~(Has(a[j], "id") /\ a[j]["id"] = key) )
       => ret[t].val # <<>> /\ ret[t].val[1]["id"] = key

\* the record the audit entry of a call holds: the inserted, the merged or
\* the removed one
AuditedRecord(t) ==
  LET i == FirstMatch(gh[t].fetched, op[t].key)
  IN CASE op[t].kind = "insert" -> arr[t][Len(arr[t])]
       [] op[t].kind = "update" -> arr[t][i]
       [] op[t].kind = "delete" -> gh[t].fetched[i]

\* in this step the store accepts the write of t's insert, update or delete
WriteSucceeds(t) ==
  /\ pc[t] = "put" /\ pc'[t] = "done" /\ ret'[t].status = "ok"
  /\ op[t].kind \in {"insert", "update", "delete"}

\* C20: the audit history of a collection changes only when the write of an
\* insert, update or delete succeeds, and then by exactly one entry appended
\* behind the earlier ones, with the call's action and record, the write
\* being in the store; every other step (a failed or rejected operation, a
\* key not found, a bulkInsert, a read) leaves the history as it is.
C20_AuditMirrorsWrites ==
  [][\A c \in Collections :
       IF \E t \in Threads : op[t].coll = c /\ WriteSucceeds(t)
       THEN \A t \in Threads :
              (op[t].coll = c /\ WriteSucceeds(t))
              => /\ auditLog'[c] = Append(auditLog[c], [action |-> op[t].kind,
                                                         data |-> AuditedRecord(t)])
                 /\ blob'[c].data = arr[t]
       ELSE auditLog'[c] = auditLog[c]]_vars

\* a delete and then an insert succeeded: the history holds their two entries
C20_Witness ==
  \E c \in Collections : \E t \in Threads :
    /\ Len(auditLog[c]) = 2
    /\ auditLog[c][1].action = "delete" /\ auditLog[c][2].action = "insert"
    /\ Done(t, {"insert"}) /\ ret[t].status = "ok" /\ op[t].coll = c

====
